---- MODULE Spec2Model ----
(***************************************************************************)
(* Sparse linear-coefficient selectors of maml/apps/symbolic/_selectors.py *)
(* (BaseSelector, DantzigSelector, PenalizedLeastSquares, SCAD, Lasso,     *)
(* AdaptiveLasso).                                                         *)
(*                                                                         *)
(* Real numbers are exact rationals <<n, d>> with d > 0; floating-point    *)
(* rounding is not modelled.  None is <<>> and a set value v is <<v>>.     *)
(* scipy.optimize.minimize and scipy.linalg.lstsq are external: each is a  *)
(* deterministic function.  minimize is sampled the first time it is       *)
(* called with given arguments and remembered afterwards; a design matrix  *)
(* is described by its column count and its least-squares solution.        *)
(***************************************************************************)
EXTENDS Integers, Sequences, FiniteSets, TLC

VARIABLES
    family,      \* the class of the selector instance
    lambd,       \* self.lambd  (None where the class has no such field)
    sigma,       \* self.sigma  (DantzigSelector)
    a,           \* self.a      (SCAD)
    gamma,       \* self.gamma  (AdaptiveLasso)
    w,           \* self.w      (AdaptiveLasso)
    coef_thres,  \* self.coef_thres
    method,      \* self.method
    is_fitted,   \* self.is_fitted
    coef_,       \* self.coef_
    data,        \* the caller's arrays: data[d].x is an MxN matrix, data[d].y its targets
    minimized,   \* scipy.optimize.minimize: arguments seen so far -> result
    first,       \* (x, y, effective options) of select calls so far -> first outcome
    last         \* the call in progress and its outcome, or idle

vars == <<family, lambd, sigma, a, gamma, w, coef_thres, method, is_fitted,
          coef_, data, minimized, first, last>>

hyper == <<family, lambd, sigma, a, gamma, coef_thres, method>>

(***************************************************************************)
(* Bounds of the model.                                                    *)
(***************************************************************************)
Den == 2          \* penalty inputs are multiples of 1/Den
MaxLam == 2       \* lambd ranges over k/Den, |k| <= MaxLam
MaxA == 4         \* SCAD's a ranges over k/Den, Den < k <= MaxA
MaxBeta == 4      \* a penalty coefficient ranges over k/Den, |k| <= MaxBeta
MaxDim == 2       \* number of columns N of a design matrix
MaxThres == 1     \* coef_thres ranges over 0..MaxThres
MaxGamma == 1     \* AdaptiveLasso's gamma ranges over 1..MaxGamma

None == <<>>
Some(v) == <<v>>

(***************************************************************************)
(* Exact rational arithmetic.                                              *)
(***************************************************************************)
Abs(n) == IF n < 0 THEN -n ELSE n

RECURSIVE Gcd(_, _)
Gcd(m, n) == IF n = 0 THEN m ELSE Gcd(n, m % n)

Norm(r) ==
    LET g == Gcd(Abs(r[1]), r[2])
    IN  <<r[1] \div g, r[2] \div g>>

R(n) == <<n, 1>>
RAdd(p, q) == Norm(<<p[1] * q[2] + q[1] * p[2], p[2] * q[2]>>)
RNeg(p) == <<-p[1], p[2]>>
RSub(p, q) == RAdd(p, RNeg(q))
RMul(p, q) == Norm(<<p[1] * q[1], p[2] * q[2]>>)
RDiv(p, q) ==
    IF q[1] > 0 THEN Norm(<<p[1] * q[2], p[2] * q[1]>>)
                ELSE Norm(<<-(p[1] * q[2]), p[2] * (-q[1])>>)
RAbs(p) == <<Abs(p[1]), p[2]>>
RLe(p, q) == p[1] * q[2] <= q[1] * p[2]
RLt(p, q) == p[1] * q[2] < q[1] * p[2]
REq(p, q) == p[1] * q[2] = q[1] * p[2]
RSign(p) == IF p[1] > 0 THEN R(1) ELSE IF p[1] < 0 THEN R(-1) ELSE R(0)

\* A boolean mask entry as numpy multiplies it: True is 1, False is 0.
Mask(b) == IF b THEN R(1) ELSE R(0)

RECURSIVE RSum(_)
RSum(s) == IF s = <<>> THEN R(0) ELSE RAdd(Head(s), RSum(Tail(s)))

\* Elementwise application over a vector.
Map(F(_), s) == [i \in 1..Len(s) |-> F(s[i])]

(***************************************************************************)
(* Construction.  BaseSelector.__init__ sets coef_thres, is_fitted, coef_  *)
(* and method; each subclass sets its own hyperparameters first.           *)
(***************************************************************************)
PositiveVals(k) == {Norm(<<n, Den>>) : n \in 1..k}
SignedVals(k) == {Norm(<<n, Den>>) : n \in (-k)..k}
AVals == {Norm(<<n, Den>>) : n \in (Den + 1)..MaxA}
Vectors(S) == UNION {[1..n -> S] : n \in 1..MaxDim}

BaseSelector_init(thres, meth) ==
    /\ coef_thres = thres
    /\ is_fitted = FALSE
    /\ coef_ = None
    /\ method = meth

DantzigSelector_init(l, s, thres, meth) ==
    /\ family = "DantzigSelector"
    /\ lambd = Some(l) /\ sigma = Some(s)
    /\ a = None /\ gamma = None /\ w = None
    /\ BaseSelector_init(thres, meth)

PenalizedLeastSquares_init(thres, meth) ==
    /\ family = "PenalizedLeastSquares"
    /\ lambd = None /\ sigma = None /\ a = None /\ gamma = None /\ w = None
    /\ BaseSelector_init(thres, meth)

SCAD_init(l, aa, thres, meth) ==
    /\ family = "SCAD"
    /\ lambd = Some(l) /\ a = Some(aa)
    /\ sigma = None /\ gamma = None /\ w = None
    /\ BaseSelector_init(thres, meth)

Lasso_init(l, thres, meth) ==
    /\ family = "Lasso"
    /\ lambd = Some(l)
    /\ sigma = None /\ a = None /\ gamma = None /\ w = None
    /\ BaseSelector_init(thres, meth)

AdaptiveLasso_init(l, g, thres, meth) ==
    /\ family = "AdaptiveLasso"
    /\ lambd = Some(l) /\ gamma = Some(g)
    /\ w = Some(R(1))
    /\ sigma = None /\ a = None
    /\ BaseSelector_init(thres, meth)

(***************************************************************************)
(* Penalty functions and their derivative surrogates.  self.lambd and      *)
(* self.a are read from the instance; beta is a vector of rationals.       *)
(***************************************************************************)
Sq(p) == RMul(p, p)

\* SCAD.penalty with the first regime's mask strict (beta_abs < lambd).
SCAD_penalty_terms_strict(beta) ==
    LET lam == lambd[1]
        aa == a[1]
        term(b) ==
            LET beta_abs == RAbs(b)
            IN  RAdd(RAdd(
                    RMul(RMul(lam, beta_abs), Mask(RLt(beta_abs, lam))),
                    RMul(RMul(RDiv(RNeg(RAdd(RSub(Sq(beta_abs),
                                                  RMul(RMul(RMul(R(2), aa), lam), beta_abs)),
                                             Sq(lam))),
                                   RMul(R(2), RSub(aa, R(1)))),
                              Mask(RLt(lam, beta_abs))),
                         Mask(RLe(beta_abs, RMul(aa, lam))))),
                    RMul(RDiv(RMul(RAdd(aa, R(1)), Sq(lam)), R(2)),
                         Mask(RLt(RMul(aa, lam), beta_abs))))
    IN  Map(term, beta)

\* SCAD.penalty, the elementwise array `penalty` before it is summed.
SCAD_penalty_terms(beta) ==
    LET lam == lambd[1]
        aa == a[1]
        term(b) ==
            LET beta_abs == RAbs(b)
            IN  RAdd(RAdd(
                    RMul(RMul(lam, beta_abs), Mask(RLe(beta_abs, lam))),
                    RMul(RMul(RDiv(RNeg(RAdd(RSub(Sq(beta_abs),
                                                  RMul(RMul(RMul(R(2), aa), lam), beta_abs)),
                                             Sq(lam))),
                                   RMul(R(2), RSub(aa, R(1)))),
                              Mask(RLt(lam, beta_abs))),
                         Mask(RLe(beta_abs, RMul(aa, lam))))),
                    RMul(RDiv(RMul(RAdd(aa, R(1)), Sq(lam)), R(2)),
                         Mask(RLt(RMul(aa, lam), beta_abs))))
    IN  Map(term, beta)

SCAD_penalty(beta) == RSum(SCAD_penalty_terms(beta))

SCAD_penalty_jac(beta) ==
    LET lam == lambd[1]
        aa == a[1]
        elem(b) ==
            LET beta_abs == RAbs(b)
                x0 == RSub(RMul(aa, lam), beta_abs)
                x == IF RLt(x0, R(0)) THEN R(0) ELSE x0
            IN  RMul(lam,
                     Mask(RLe(beta_abs,
                              RAdd(lam,
                                   RMul(RDiv(x, RMul(RSub(aa, R(1)), lam)),
                                        Mask(RLt(lam, beta_abs)))))))
    IN  Map(elem, beta)

Lasso_penalty(beta) ==
    LET term(b) == RMul(lambd[1], RAbs(b))
    IN  RSum(Map(term, beta))

\* Lasso._penalty_jac without the reassignment of small signs.
Lasso_sign_plain(beta) == Map(RSign, beta)

\* sign = np.sign(beta); sign[np.abs(sign) < 0.2] = 1
Lasso_sign(beta) ==
    LET elem(b) ==
            LET sign == RSign(b)
            IN  IF RLt(RAbs(sign), <<1, 5>>) THEN R(1) ELSE sign
    IN  Map(elem, beta)

Lasso_penalty_jac(beta) ==
    LET scale(s) == RMul(lambd[1], s)
    IN  Map(scale, Lasso_sign(beta))

penalty(beta) ==
    IF family = "SCAD" THEN SCAD_penalty(beta) ELSE Lasso_penalty(beta)

penalty_jac(beta) ==
    IF family = "SCAD" THEN SCAD_penalty_jac(beta) ELSE Lasso_penalty_jac(beta)

(***************************************************************************)
(* Specification of the penalty functions: an SCAD or Lasso instance is    *)
(* constructed and penalty / _penalty_jac are applied to coefficient       *)
(* vectors.                                                                *)
(***************************************************************************)
BetaVectors == Vectors(SignedVals(MaxBeta))

\* No call is in progress on the instance.
Idle == [op |-> "idle"]

\* The call in progress returns (or its exception reaches the caller).
Return ==
    /\ last # Idle
    /\ last' = Idle
    /\ UNCHANGED <<hyper, w, is_fitted, coef_, data, minimized, first>>

InitPenalty ==
    /\ \/ \E l \in PositiveVals(MaxLam), aa \in AVals : SCAD_init(l, aa, 0, "SLSQP")
       \/ \E l \in SignedVals(MaxLam) : Lasso_init(l, 0, "SLSQP")
    /\ data = <<>> /\ minimized = <<>> /\ first = <<>>
    /\ last = Idle

CallPenalty ==
    /\ last = Idle
    /\ \E beta \in BetaVectors :
        /\ last' = [op |-> "penalty", beta |-> beta, out |-> penalty(beta)]
        /\ UNCHANGED <<hyper, w, is_fitted, coef_, data, minimized, first>>

CallPenaltyJac ==
    /\ last = Idle
    /\ \E beta \in BetaVectors :
        /\ last' = [op |-> "_penalty_jac", beta |-> beta, out |-> penalty_jac(beta)]
        /\ UNCHANGED <<hyper, w, is_fitted, coef_, data, minimized, first>>

NextPenalty == CallPenalty \/ CallPenaltyJac \/ Return

SpecPenalty == InitPenalty /\ [][NextPenalty]_vars

(***************************************************************************)
(* Claims about the penalty functions (checked under SpecPenalty).         *)
(***************************************************************************)
Max0(p) == IF RLt(p, R(0)) THEN R(0) ELSE p

C7_Surrogate(b) ==
    LET lam == lambd[1]
        aa == a[1]
        ab == RAbs(b)
    IN  IF RLe(ab, lam)
        THEN lam
        ELSE RDiv(RMul(lam, Max0(RSub(RMul(aa, lam), ab))),
                  RMul(RSub(aa, R(1)), lam))

\* C7: for lambda > 0 and a > 1, SCAD._penalty_jac returns, per coefficient,
\* lambda when |beta_i| <= lambda and
\* lambda * max(0, a*lambda - |beta_i|) / ((a - 1) * lambda) otherwise.
C7_ScadJacIsSurrogate ==
    (family = "SCAD" /\ last.op = "_penalty_jac") =>
        \A i \in 1..Len(last.beta) :
            REq(last.out[i], C7_Surrogate(last.beta[i]))

C8_Regime1(ab) == RMul(lambd[1], ab)
C8_Regime2(ab) ==
    RNeg(RDiv(RAdd(RSub(Sq(ab), RMul(RMul(RMul(R(2), a[1]), lambd[1]), ab)),
                   Sq(lambd[1])),
              RMul(R(2), RSub(a[1], R(1)))))
C8_Regime3 == RDiv(RMul(RAdd(a[1], R(1)), Sq(lambd[1])), R(2))

C8_Piecewise(b) ==
    LET ab == RAbs(b)
    IN  IF RLe(ab, lambd[1]) THEN C8_Regime1(ab)
        ELSE IF RLe(ab, RMul(a[1], lambd[1])) THEN C8_Regime2(ab)
        ELSE C8_Regime3

\* C8: for lambda > 0 and a > 1, SCAD.penalty is the sum over the
\* coefficients of exactly one of the three regimes each, and at the
\* breakpoints the value the code computes is the one both neighbouring
\* regimes give: lambda^2 at |b| = lambda, (a+1)*lambda^2/2 at |b| = a*lambda.
C8_ScadPenaltyRegimes ==
    (family = "SCAD" /\ last.op = "penalty") =>
        /\ REq(last.out, RSum(Map(C8_Piecewise, last.beta)))
        /\ \A i \in 1..Len(last.beta) :
            LET ab == RAbs(last.beta[i])
                t == SCAD_penalty_terms(last.beta)[i]
            IN  /\ REq(ab, lambd[1]) =>
                    /\ REq(t, Sq(lambd[1]))
                    /\ REq(t, C8_Regime1(ab))
                    /\ REq(t, C8_Regime2(ab))
                /\ REq(ab, RMul(a[1], lambd[1])) =>
                    /\ REq(t, C8_Regime3)
                    /\ REq(t, C8_Regime2(ab))

\* A penalty call on a vector holding both breakpoints, lambda and a*lambda.
C8_Witness ==
    /\ family = "SCAD" /\ last.op = "penalty"
    /\ \E i, j \in 1..Len(last.beta) :
        /\ REq(RAbs(last.beta[i]), lambd[1])
        /\ REq(RAbs(last.beta[j]), RMul(a[1], lambd[1]))
        /\ REq(last.out, RAdd(Sq(lambd[1]), C8_Regime3))

\* C9: Lasso.penalty(beta) = Lasso.penalty(-beta); each component of
\* Lasso._penalty_jac is lambda*sign(beta_i) and the negation of the
\* component at -beta where beta_i # 0, and is +lambda (sign +1, not 0) for
\* both beta and -beta where beta_i = 0.
C9_LassoSymmetry ==
    (family = "Lasso" /\ last.op \in {"penalty", "_penalty_jac"}) =>
        LET neg == Map(RNeg, last.beta)
        IN  /\ last.op = "penalty" => REq(last.out, Lasso_penalty(neg))
            /\ last.op = "_penalty_jac" =>
                \A i \in 1..Len(last.beta) :
                    IF last.beta[i][1] # 0
                    THEN /\ REq(last.out[i], RMul(lambd[1], RSign(last.beta[i])))
                         /\ REq(last.out[i], RNeg(Lasso_penalty_jac(neg)[i]))
                    ELSE /\ REq(last.out[i], lambd[1])
                         /\ REq(Lasso_penalty_jac(neg)[i], lambd[1])
                         /\ Lasso_sign(last.beta)[i] = R(1)
                         /\ Lasso_sign(neg)[i] = R(1)

\* _penalty_jac applied, with a nonzero lambda, to a vector with a zero and
\* a negative component.
C9_Witness ==
    /\ family = "Lasso" /\ last.op = "_penalty_jac"
    /\ lambd[1][1] # 0
    /\ \E i, j \in 1..Len(last.beta) :
        /\ last.beta[i][1] = 0 /\ last.out[i] = lambd[1]
        /\ last.beta[j][1] < 0 /\ last.out[j] = RNeg(lambd[1])

(***************************************************************************)
(* The selector driver: select, evaluate, get_coef.                        *)
(***************************************************************************)
DatasetIds == 1..MaxDim

\* The caller's d-th dataset: a design matrix with d columns and its targets.
Dataset(d) == [x |-> [id |-> d, n_dim |-> d], y |-> [id |-> d]]

\* scipy.linalg.lstsq(x, y)[0]: the least-squares solution of the data,
\* here 0, 1, ..., N-1 (a zero solution component is among the cases).
lstsq(x, y) == [i \in 1..x.n_dim |-> i - 1]

RECURSIVE Pow(_, _)
Pow(b, e) == IF e = 0 THEN 1 ELSE b * Pow(b, e - 1)

\* AdaptiveLasso.get_w: 1. / np.abs(beta_hat) ** self.gamma; a division by
\* zero yields numpy's inf.
get_w(x, y) ==
    LET beta_hat == lstsq(x, y)
    IN  [i \in 1..Len(beta_hat) |->
            IF beta_hat[i] = 0 THEN "inf"
            ELSE Norm(<<1, Pow(Abs(beta_hat[i]), gamma[1])>>)]

\* options or {"maxiter": 1e4, 'ftol': 1e-12}: None and the empty dict are
\* both falsy.
DefaultOptions == [maxiter |-> 10000, ftol |-> "1e-12"]
EmptyDict == "{}"
OptionsIn == {None, Some(EmptyDict)}
EffectiveOptions(options) ==
    IF options = None \/ options = Some(EmptyDict) THEN DefaultOptions
    ELSE options[1]

\* The initial point with is_fitted consulted: the previous coefficients
\* when they have the right length.
WarmStart(n_dim) ==
    IF is_fitted /\ Len(coef_[1]) = n_dim THEN coef_[1]
    ELSE [i \in 1..n_dim |-> 0]

\* [0] * n_dim
InitialPoint(n_dim) == [i \in 1..n_dim |-> 0]

\* What minimize is called with.  The loss, jacobian and constraint closures
\* read x, y and the instance's fields (self.w as it is when they run).
MinimizeArgs(x, y, options, wNow) ==
    [fun |-> [self |-> <<family, lambd, sigma, a, gamma, wNow>>, x |-> x, y |-> y],
     x0 |-> InitialPoint(x.n_dim),
     method |-> method,
     options |-> EffectiveOptions(options)]

\* The values a solver coefficient takes: zero (at the threshold 0, below
\* every other one) and a negative value beyond every threshold.
CoefVals == {-(MaxThres + 1), 0}

\* res of minimize: status 0 with the optimised point x, or a nonzero status
\* (9: SLSQP's iteration limit), whose x select never reads.
MinimizeResults(n_dim) ==
    {[status |-> 0, x |-> v] : v \in [1..n_dim -> CoefVals]}
        \cup {[status |-> 9]}

\* The comparison of line 53 with >= for >.
ExceedsOrEquals(c, thres) == Abs(c) >= thres

\* np.abs(coef) > coef_thres, for one coefficient
Exceeds(c, thres) == Abs(c) > thres

\* np.where(mask)[0]: the 0-based indices of the True entries, in order.
RECURSIVE WhereFrom(_, _, _)
WhereFrom(v, thres, i) ==
    IF i > Len(v) THEN <<>>
    ELSE (IF Exceeds(v[i], thres) THEN <<i - 1>> ELSE <<>>)
             \o WhereFrom(v, thres, i + 1)

Where(v, thres) == WhereFrom(v, thres, 1)

\* Lines 48-53 with the fitted flag recorded before the status is checked.
select_finish_flag_first(res) ==
    IF res.status # 0
    THEN [raised |-> Some("RuntimeError"), is_fitted |-> TRUE, coef_ |-> coef_,
          ret |-> None]
    ELSE [raised |-> None, is_fitted |-> TRUE, coef_ |-> Some(res.x),
          ret |-> Some(Where(res.x, coef_thres))]

\* Lines 48-53 with a fallback for a failed solve: the instance is reset and
\* an empty support set is returned.
select_finish_fallback(res) ==
    IF res.status # 0
    THEN [raised |-> None, is_fitted |-> FALSE, coef_ |-> None, ret |-> Some(<<>>)]
    ELSE [raised |-> None, is_fitted |-> TRUE, coef_ |-> Some(res.x),
          ret |-> Some(Where(res.x, coef_thres))]

\* Lines 48-53 with the fitted state cleared before the exception is raised.
select_finish_reset(res) ==
    IF res.status # 0
    THEN [raised |-> Some("RuntimeError"), is_fitted |-> FALSE, coef_ |-> None,
          ret |-> None]
    ELSE [raised |-> None, is_fitted |-> TRUE, coef_ |-> Some(res.x),
          ret |-> Some(Where(res.x, coef_thres))]

\* BaseSelector.select after minimize has returned res: the exception or the
\* new fitted state and the returned indices.
select_finish(res) ==
    IF res.status # 0
    THEN [raised |-> Some("RuntimeError"), is_fitted |-> is_fitted, coef_ |-> coef_,
          ret |-> None]
    ELSE [raised |-> None, is_fitted |-> TRUE, coef_ |-> Some(res.x),
          ret |-> Some(Where(res.x, coef_thres))]

\* AdaptiveLasso.select with the weights kept from construction.
select_w_kept(x, y) == w

\* self.w as select leaves it: AdaptiveLasso.select assigns get_w(x, y)
\* before it calls BaseSelector.select; no other class has the field.
select_w(x, y) == IF family = "AdaptiveLasso" THEN Some(get_w(x, y)) ELSE w

\* The caller's arrays as a select on dataset d leaves them: x and y are
\* only read.
data_after_select(d) == data

\* What the instance and the caller's arrays were when the call started.
Before == [is_fitted |-> is_fitted, coef_ |-> coef_, w |-> w, hyper |-> hyper,
           data |-> data]

Select ==
    /\ last = Idle
    /\ \E d \in DOMAIN data, options \in OptionsIn :
        LET x == data[d].x
            y == data[d].y
            wNow == select_w(x, y)
            args == MinimizeArgs(x, y, options, wNow)
        IN  \E res \in MinimizeResults(x.n_dim) :
                /\ args \in DOMAIN minimized => res = minimized[args]
                /\ LET fin == select_finish(res)
                       call == <<x, y, EffectiveOptions(options)>>
                       outcome == [raised |-> fin.raised, ret |-> fin.ret,
                                   coef_ |-> fin.coef_]
                   IN  /\ minimized' = (args :> res) @@ minimized
                       /\ w' = wNow
                       /\ is_fitted' = fin.is_fitted
                       /\ coef_' = fin.coef_
                       /\ data' = data_after_select(d)
                       /\ first' = IF call \in DOMAIN first THEN first
                                   ELSE (call :> outcome) @@ first
                       /\ last' = [op |-> "select", d |-> d, options |-> options,
                                   before |-> Before,
                                   call |-> call, rerun |-> call \in DOMAIN first,
                                   solver_calls |-> <<args>>, res |-> res,
                                   raised |-> fin.raised, ret |-> fin.ret]
    /\ UNCHANGED hyper

\* BaseSelector.evaluate: a zero-intercept linear model is given self.coef_
\* and scored on x, y.  The model's predict fails on a None coefficient
\* vector and on one whose length is not the column count of x.
evaluate(x, y, metric) ==
    IF coef_ = None
    THEN [raised |-> Some("AttributeError"), ret |-> None]
    ELSE IF Len(coef_[1]) # x.n_dim
    THEN [raised |-> Some("ValueError"), ret |-> None]
    ELSE [raised |-> None,
          ret |-> Some([metric |-> metric, coef |-> coef_[1], x |-> x, y |-> y])]

Evaluate ==
    /\ last = Idle
    /\ \E d \in DOMAIN data :
        LET out == evaluate(data[d].x, data[d].y, "neg_mean_absolute_error")
        IN  last' = [op |-> "evaluate", d |-> d, before |-> Before,
                     raised |-> out.raised, ret |-> out.ret]
    /\ UNCHANGED <<hyper, w, is_fitted, coef_, data, minimized, first>>

\* BaseSelector.get_coef: return self.coef_
get_coef == [raised |-> None, ret |-> Some(coef_)]

GetCoef ==
    /\ last = Idle
    /\ last' = [op |-> "get_coef", before |-> Before,
                raised |-> get_coef.raised, ret |-> get_coef.ret]
    /\ UNCHANGED <<hyper, w, is_fitted, coef_, data, minimized, first>>

Init ==
    /\ \E thres \in 0..MaxThres :
        \/ DantzigSelector_init(R(1), R(1), thres, "SLSQP")
        \/ PenalizedLeastSquares_init(thres, "SLSQP")
        \/ SCAD_init(R(1), <<37, 10>>, thres, "SLSQP")
        \/ Lasso_init(R(1), thres, "SLSQP")
        \/ \E g \in 1..MaxGamma : AdaptiveLasso_init(R(1), g, thres, "SLSQP")
    /\ data = [d \in DatasetIds |-> Dataset(d)]
    /\ minimized = <<>> /\ first = <<>>
    /\ last = Idle

Next == Select \/ Evaluate \/ GetCoef \/ Return

Spec == Init /\ [][Next]_vars

(***************************************************************************)
(* Claims about the selector driver (checked under Spec).                  *)
(***************************************************************************)
SelectDone == last.op = "select"
SelectSucceeded == last.op = "select" /\ last.raised = None

\* C1: after a successful select the returned index sequence is strictly
\* ascending, lies in 0..N-1, holds index i exactly when
\* |beta_i| > coef_thres, and is empty when every |beta_i| <= coef_thres.
C1_SupportSet ==
    SelectSucceeded =>
        LET beta == coef_[1]
            ret == last.ret[1]
            N == Len(beta)
        IN  /\ N = data[last.d].x.n_dim
            /\ \A k \in 1..(Len(ret) - 1) : ret[k] < ret[k + 1]
            /\ \A k \in 1..Len(ret) : ret[k] \in 0..(N - 1)
            /\ \A i \in 0..(N - 1) :
                (\E k \in 1..Len(ret) : ret[k] = i) <=> (Abs(beta[i + 1]) > coef_thres)
            /\ (\A i \in 1..N : Abs(beta[i]) <= coef_thres) => ret = <<>>

\* A successful select whose coefficients hold one exactly at the threshold
\* and one beyond it.
C1_Witness ==
    /\ SelectSucceeded
    /\ \E i, j \in 1..Len(coef_[1]) :
        /\ i < j
        /\ Abs(coef_[1][i]) = coef_thres
        /\ Abs(coef_[1][j]) > coef_thres
        /\ last.ret = Some(<<j - 1>>)

\* C2: a select call invokes the solver exactly once; a nonzero status ends
\* it in the RuntimeError with nothing returned, a zero status in a returned
\* support set and no error.
C2_SolverOnceAndStatus ==
    SelectDone =>
        /\ Len(last.solver_calls) = 1
        /\ last.solver_calls[1] \in DOMAIN minimized
        /\ minimized[last.solver_calls[1]] = last.res
        /\ last.res.status # 0 => (last.raised = Some("RuntimeError") /\ last.ret = None)
        /\ last.res.status = 0 => (last.raised = None /\ last.ret # None)

\* A select whose solver ended with a nonzero status.
C2_Witness ==
    /\ SelectDone
    /\ last.res.status # 0
    /\ last.raised = Some("RuntimeError")

\* C3: on an instance with no successful select, evaluate and get_coef end
\* in an error and return no value.
C3_UnfittedReadsFail ==
    (last.op \in {"evaluate", "get_coef"} /\ ~last.before.is_fitted) =>
        (last.raised # None /\ last.ret = None)

\* C4 as stated: once a select has succeeded, coef_ and is_fitted keep their
\* values through every later select, evaluate and get_coef.
C4_FittedStateImmutable ==
    (last.op \in {"select", "evaluate", "get_coef"} /\ last.before.is_fitted) =>
        (is_fitted = last.before.is_fitted /\ coef_ = last.before.coef_)

\* C4 amended: once a select has succeeded, is_fitted stays true; evaluate,
\* get_coef and a failing select leave coef_ as it was, and a later
\* successful select replaces coef_ by that call's solver result.
C4_FittedStateReplacedOnlyBySuccess ==
    (last.op \in {"select", "evaluate", "get_coef"} /\ last.before.is_fitted) =>
        /\ is_fitted
        /\ IF SelectSucceeded
           THEN coef_ = Some(last.res.x)
           ELSE coef_ = last.before.coef_

\* A successful select on a fitted instance that stored other coefficients.
C4_Witness ==
    /\ SelectSucceeded
    /\ last.before.is_fitted
    /\ coef_ # last.before.coef_

\* C5 as stated: a select call leaves the caller's arrays, the
\* hyperparameters and every field but is_fitted and coef_, w included, as
\* they were.
C5_SelectChangesOnlyFittedState ==
    SelectDone =>
        /\ data = last.before.data
        /\ hyper = last.before.hyper
        /\ w = last.before.w

C5_Weights(x, y) ==
    LET beta_hat == lstsq(x, y)
    IN  [i \in 1..x.n_dim |->
            IF beta_hat[i] = 0 THEN "inf"
            ELSE <<1, Pow(Abs(beta_hat[i]), gamma[1])>>]

\* C5 amended: a select call leaves the caller's arrays and the
\* hyperparameters as they were; besides is_fitted and coef_ it changes only
\* AdaptiveLasso's w, which it sets to |beta_hat_i|^(-gamma) of the
\* least-squares solution of X, y, whether or not the solver then converges.
C5_SelectChangesFittedStateAndWeights ==
    SelectDone =>
        /\ data = last.before.data
        /\ hyper = last.before.hyper
        /\ family # "AdaptiveLasso" => w = last.before.w
        /\ family = "AdaptiveLasso" =>
            /\ Len(w[1]) = data[last.d].x.n_dim
            /\ \A i \in 1..Len(w[1]) :
                LET e == C5_Weights(data[last.d].x, data[last.d].y)[i]
                IN  IF e = "inf" THEN w[1][i] = "inf"
                    ELSE w[1][i] # "inf" /\ REq(w[1][i], e)

\* A failed select of an AdaptiveLasso instance that changed w.
C5_Witness ==
    /\ SelectDone
    /\ family = "AdaptiveLasso"
    /\ last.raised # None
    /\ w # last.before.w

\* C6: with a deterministic solver, a select with the X, y and options of an
\* earlier select on the instance raises or returns as the first one did
\* and, when it succeeds, stores the same coef_; every solver call starts
\* from the zero vector.
C6_SelectRepeatable ==
    /\ \A k \in DOMAIN minimized : \A i \in 1..Len(k.x0) : k.x0[i] = 0
    /\ SelectDone =>
        /\ last.call \in DOMAIN first
        /\ last.raised = first[last.call].raised
        /\ last.ret = first[last.call].ret
        /\ last.raised = None => coef_ = first[last.call].coef_

\* A repeated select that succeeds on an instance left fitted, with other
\* coefficients, by a select on other data.
C6_Witness ==
    /\ SelectSucceeded
    /\ last.rerun
    /\ last.before.is_fitted
    /\ last.before.coef_ # coef_
    /\ Len(last.ret[1]) > 0

\* C10: a select whose solver status is nonzero leaves is_fitted and coef_
\* as they were; is_fitted is true exactly when coef_ is set, and then coef_
\* is the point of a solver call that ended with status 0.
C10_AllOrNothing ==
    /\ is_fitted <=> coef_ # None
    /\ is_fitted =>
        \E k \in DOMAIN minimized :
            minimized[k].status = 0 /\ coef_ = Some(minimized[k].x)
    /\ (SelectDone /\ last.res.status # 0) =>
        /\ last.raised # None
        /\ is_fitted = last.before.is_fitted
        /\ coef_ = last.before.coef_

\* A failed select on a fitted instance.
C10_Witness ==
    /\ SelectDone
    /\ last.res.status # 0
    /\ last.before.is_fitted
    /\ coef_ = last.before.coef_

====
